---- MODULE Spec2Model ----
(***************************************************************************)
(* A model of radix-tree-rs: the reference-counted node graph (node.rs),   *)
(* the copy-on-write transaction (tree/transaction.rs) and the Tree facade *)
(* (tree.rs).                                                              *)
(*                                                                         *)
(* Nodes live in a heap: a sequence of node records, a node's identity     *)
(* (the address an Arc points to) being its index.  The fields of a node   *)
(* sit behind RwLocks in the source and are written through shared         *)
(* references, so every write is modelled as an update of the heap cell:   *)
(* whoever else holds the same Arc sees it.                                *)
(***************************************************************************)
EXTENDS Integers, Sequences, FiniteSets, TLC

\* ------------------------------------------------------------ bounds
MaxByte == 2
MaxKeyLen == 3
MaxVal == 2
MaxTxn == 2
MaxOps == 2
MaxInitKeys == 2
MaxHeadByte == 1
MaxChars == 2

\* ------------------------------------------------------------ program constants
DEFAULT_MODIFIED_CACHE_SIZE == 8192
\* Txn.size and Tree.size are u32 (AtomicU32).  A u32 is held as the integer with
\* the same 32 bits in two's complement: 0 .. U32_TOP stand for themselves and
\* -1 stands for u32::MAX, so that 0 - 1 wraps to -1 as fetch_sub wraps.
U32_TOP == 2147483647

Bytes == 1..MaxByte
Vals == 1..MaxVal
TxnIds == 1..MaxTxn

RECURSIVE SeqsUpTo(_)
SeqsUpTo(n) ==
    IF n = 0 THEN {<<>>}
    ELSE LET S == SeqsUpTo(n - 1)
         IN  S \cup {Append(s, b) : s \in {x \in S : Len(x) = n - 1}, b \in Bytes}

\* the keys callers use: byte strings of at most MaxKeyLen bytes in which only
\* the byte at position MaxKeyLen may exceed MaxHeadByte
Keys ==
    {k \in SeqsUpTo(MaxKeyLen) :
        \A i \in 1..Len(k) : i < MaxKeyLen => k[i] <= MaxHeadByte}

\* ------------------------------------------------------------ Option<T>
None == <<>>
Some(x) == <<x>>
IsSome(o) == o # <<>>
Unwrap(o) == o[1]

\* ------------------------------------------------------------ strings as byte sequences
Drop(s, n) == SubSeq(s, n + 1, Len(s))
Take(s, n) == SubSeq(s, 1, n)
StartsWith(s, p) == Len(p) <= Len(s) /\ Take(s, Len(p)) = p

\* A key is a &str: valid UTF-8, and slicing it (&s[i..], &s[..i]) panics unless
\* byte index i is a char boundary: the start, the end, or a byte that is not a
\* continuation byte 0x80..0xBF.  Bytes below 128 are one-byte characters.
is_char_boundary(s, i) ==
    \/ i = 0
    \/ i = Len(s)
    \/ i < Len(s) /\ ~(s[i + 1] \in 128..191)

SlicePanic == "byte index is not a char boundary"

\* utils::longest_prefix: the loop over i < min(len) that stops at the first
\* differing byte.
RECURSIVE LongestPrefixFrom(_, _, _, _)
LongestPrefixFrom(key1, key2, i, max_len) ==
    IF i < max_len /\ key1[i + 1] = key2[i + 1]
    THEN LongestPrefixFrom(key1, key2, i + 1, max_len)
    ELSE i

Min(a, b) == IF a <= b THEN a ELSE b

\* longest_prefix that never compares a byte: the shorter length
longest_prefix_MinLen(key1, key2) == Min(Len(key1), Len(key2))

longest_prefix(key1, key2) ==
    LongestPrefixFrom(key1, key2, 0, Min(Len(key1), Len(key2)))

\* ------------------------------------------------------------ Edges (a Vec<Edge>)
\* slice::binary_search_by over the labels: Ok(i) or Err(i), indices 0-based.
RECURSIVE BinarySearchLoop(_, _, _, _)
BinarySearchLoop(es, label, base, size) ==
    IF size > 1
    THEN LET half == size \div 2
             mid == base + half
         IN  BinarySearchLoop(es, label,
                              IF es[mid + 1].label > label THEN base ELSE mid,
                              size - half)
    ELSE base

BinarySearch(es, label) ==
    IF Len(es) = 0 THEN [ok |-> FALSE, idx |-> 0]
    ELSE LET base == BinarySearchLoop(es, label, 0, Len(es))
         IN  IF es[base + 1].label = label THEN [ok |-> TRUE, idx |-> base]
             ELSE [ok |-> FALSE,
                   idx |-> base + (IF es[base + 1].label < label THEN 1 ELSE 0)]

\* the .unwrap_or_else(|idx| idx) every caller applies
SearchIdx(es, label) == BinarySearch(es, label).idx

InsertAt(es, i, e) == Take(es, i) \o <<e>> \o Drop(es, i)
RemoveAt(es, i) == Take(es, i) \o Drop(es, i + 1)

Edge(label, node) == [label |-> label, node |-> node]

\* add_edge that pushes the edge at the end
add_edge_AtEnd(es, edge) == Append(es, edge)

add_edge(es, edge) == InsertAt(es, SearchIdx(es, edge.label), edge)

\* replace_edge / replace_edge_at: the new list, or a panic.
\* First a replace_edge that adds the edge where no edge has the label.
replace_edge_Added(es, edge) ==
    LET i == SearchIdx(es, edge.label)
    IN  IF i < Len(es) /\ es[i + 1].label = edge.label
        THEN [edges |-> [es EXCEPT ![i + 1].node = edge.node], panic |-> ""]
        ELSE [edges |-> InsertAt(es, i, edge), panic |-> ""]

replace_edge(es, edge) ==
    LET i == SearchIdx(es, edge.label)
    IN  IF i < Len(es) /\ es[i + 1].label = edge.label
        THEN [edges |-> [es EXCEPT ![i + 1].node = edge.node], panic |-> ""]
        ELSE [edges |-> es, panic |-> "replace missing edge"]

replace_edge_at(es, index, edge) ==
    IF index < Len(es) /\ es[index + 1].label = edge.label
    THEN [edges |-> [es EXCEPT ![index + 1].node = edge.node], panic |-> ""]
    ELSE [edges |-> es, panic |-> "replace edge at invalid index or label mismatch"]

\* get_edge that counts the index from one
get_edge_IndexFromOne(es, label) ==
    LET i == SearchIdx(es, label)
    IN  IF i < Len(es) /\ es[i + 1].label = label
        THEN Some([idx |-> i + 1, node |-> es[i + 1].node])
        ELSE None

get_edge(es, label) ==
    LET i == SearchIdx(es, label)
    IN  IF i < Len(es) /\ es[i + 1].label = label
        THEN Some([idx |-> i, node |-> es[i + 1].node])
        ELSE None

\* get_lower_bound_edge that wants the label itself
get_lower_bound_edge_Exact(es, label) ==
    LET i == SearchIdx(es, label)
    IN  IF i < Len(es) /\ es[i + 1].label = label
        THEN Some([idx |-> i, node |-> es[i + 1].node])
        ELSE None

get_lower_bound_edge(es, label) ==
    LET i == SearchIdx(es, label)
    IN  IF i < Len(es) THEN Some([idx |-> i, node |-> es[i + 1].node]) ELSE None

\* delete_edge that removes the edge at the lower bound, whatever its label
delete_edge_AtBound(es, label) ==
    LET i == SearchIdx(es, label)
    IN  IF i < Len(es) THEN RemoveAt(es, i) ELSE es

delete_edge(es, label) ==
    LET i == SearchIdx(es, label)
    IN  IF i < Len(es) /\ es[i + 1].label = label THEN RemoveAt(es, i) ELSE es

\* ------------------------------------------------------------ Node, LeafNode
LeafNode(key, value) == [key |-> key, value |-> value]

\* Node::new / Node { prefix, leaf, ..Default::default() }
NewNode(prefix, leaf) == [prefix |-> prefix, leaf |-> leaf, edges |-> <<>>]

\* Node::default()
DefaultNode == NewNode(<<>>, None)

is_leaf(h, n) == IsSome(h[n].leaf)
edge_len(h, n) == Len(h[n].edges)

\* Arc::new(node): the heap with the new cell; its identity is Len of the result
Alloc(h, node) == Append(h, node)

\* PartialEq for Node, Edge and Edges: structural, through the Arcs
RECURSIVE NodeEq(_, _, _)
NodeEq(h, a, b) ==
    \/ a = b
    \/ /\ h[a].prefix = h[b].prefix
       /\ h[a].leaf = h[b].leaf
       /\ Len(h[a].edges) = Len(h[b].edges)
       /\ \A i \in 1..Len(h[a].edges) :
            /\ h[a].edges[i].label = h[b].edges[i].label
            /\ NodeEq(h, h[a].edges[i].node, h[b].edges[i].node)

\* Node::get that does not compare the rest of the child's prefix
RECURSIVE NodeGet_LabelOnly(_, _, _)
NodeGet_LabelOnly(h, n, search) ==
    IF search = <<>>
    THEN (IF is_leaf(h, n) THEN Some(Unwrap(h[n].leaf).value) ELSE None)
    ELSE LET e == get_edge(h[n].edges, search[1])
         IN  IF ~IsSome(e) THEN None
             ELSE LET c == Unwrap(e).node
                  IN  IF Len(h[c].prefix) <= Len(search)
                      THEN NodeGet_LabelOnly(h, c, Drop(search, Len(h[c].prefix)))
                      ELSE None

\* Node::get
RECURSIVE NodeGet(_, _, _)
NodeGet(h, n, search) ==
    IF search = <<>>
    THEN (IF is_leaf(h, n) THEN Some(Unwrap(h[n].leaf).value) ELSE None)
    ELSE LET e == get_edge(h[n].edges, search[1])
         IN  IF ~IsSome(e) THEN None
             ELSE LET c == Unwrap(e).node
                  IN  IF StartsWith(search, h[c].prefix)
                      THEN NodeGet(h, c, Drop(search, Len(h[c].prefix)))
                      ELSE None

\* ------------------------------------------------------------ Txn: the clone memo
\* Txn.writable is an LruCache keyed by Arc<Node>: the key's hash is the hash of
\* the node's prefix (Hash for Node) taken when the key is put, and a lookup
\* compares with PartialEq for Node (structural).  An entry keeps the prefix it
\* was hashed under; distinct prefixes are taken to hash apart.  Entries are
\* in order of use, least recent first; None and the empty cache behave alike.
MemoEntry(node, hash) == [node |-> node, hash |-> hash]

\* LruCache::contains
MemoContains(h, w, n) ==
    \E i \in 1..Len(w) : w[i].hash = h[n].prefix /\ NodeEq(h, w[i].node, n)

\* LruCache::put of a key that is not present
MemoPut(w, e) ==
    Append(IF Len(w) >= DEFAULT_MODIFIED_CACHE_SIZE THEN Tail(w) ELSE w, e)

\* get_writable_node that hands back the node it was given, never a clone
get_writable_node_InPlace(h, w, n) == [h |-> h, w |-> w, node |-> n]

\* get_writable_node whose clone copies the node's children as well
get_writable_node_DeepClone(h, w, n) ==
    IF MemoContains(h, w, n)
    THEN [h |-> h, w |-> w, node |-> n]
    ELSE LET k == Len(h[n].edges)
             copy == [h[n] EXCEPT !.edges =
                         [i \in 1..k |-> Edge(h[n].edges[i].label, Len(h) + i)]]
         IN  [h |-> Append(h \o [i \in 1..k |-> h[h[n].edges[i].node]], copy),
              w |-> MemoPut(w, MemoEntry(Len(h) + k + 1, h[n].prefix)),
              node |-> Len(h) + k + 1]

\* Txn::get_writable_node
get_writable_node(h, w, n) ==
    IF MemoContains(h, w, n)
    THEN [h |-> h, w |-> w, node |-> n]
    ELSE LET h2 == Alloc(h, h[n])
         IN  [h |-> h2, w |-> MemoPut(w, MemoEntry(Len(h2), h[n].prefix)),
              node |-> Len(h2)]

\* ------------------------------------------------------------ Txn::merge_child
\* merge_child that forgets the child's leaf: the node is left without one
merge_child_LeafLost(h, n) ==
    IF is_leaf(h, n) THEN [h |-> h, panic |-> "cannot merge a leaf node"]
    ELSE IF edge_len(h, n) # 1
    THEN [h |-> h, panic |-> "node must have a single edge to merge"]
    ELSE LET child == h[n].edges[Len(h[n].edges)].node
         IN  [h |-> [h EXCEPT ![n].edges = h[child].edges,
                              ![n].prefix = @ \o h[child].prefix,
                              ![child].leaf = None,
                              ![child].edges = <<>>],
              panic |-> ""]

\* merge_child without its first assertion: a leaf node with one edge is merged
merge_child_LeafMerged(h, n) ==
    IF edge_len(h, n) # 1
    THEN [h |-> h, panic |-> "node must have a single edge to merge"]
    ELSE LET child == h[n].edges[Len(h[n].edges)].node
         IN  [h |-> [h EXCEPT ![n].edges = h[child].edges,
                              ![n].prefix = @ \o h[child].prefix,
                              ![n].leaf = h[child].leaf,
                              ![child].leaf = None,
                              ![child].edges = <<>>],
              panic |-> ""]

merge_child(h, n) ==
    IF is_leaf(h, n) THEN [h |-> h, panic |-> "cannot merge a leaf node"]
    ELSE IF edge_len(h, n) # 1
    THEN [h |-> h, panic |-> "node must have a single edge to merge"]
    ELSE LET child == h[n].edges[Len(h[n].edges)].node
             \* collect_into_edges: drained from the child, appended to the node
             Collect(h3) ==
                 IF edge_len(h3, child) > 0
                 THEN [h3 EXCEPT ![n].edges = @ \o h3[child].edges,
                                 ![child].edges = <<>>]
                 ELSE [h3 EXCEPT ![n].edges = <<>>]
         \* pop_edge, push_str, and the child's leaf taken and moved
         IN  [h |-> Collect([h EXCEPT ![n].edges = Take(@, Len(@) - 1),
                                      ![n].prefix = @ \o h[child].prefix,
                                      ![child].leaf = None,
                                      ![n].leaf = h[child].leaf]),
              panic |-> ""]

\* ------------------------------------------------------------ Txn::internal_insert
InsertResult(h, w, node, old, panic) ==
    [h |-> h, w |-> w, node |-> node, old |-> old, panic |-> panic]

\* the split branch that leaves the moved child its whole prefix
InsertSplit_PrefixKept(h, w, node, key, search, value, child_node, common_prefix_len) ==
    LET split_node == Len(h) + 1
        search2 == Drop(search, common_prefix_len)
        PutLeaf(h4) ==
            IF search2 = <<>>
            THEN [h4 EXCEPT ![split_node].leaf = Some(LeafNode(key, value))]
            ELSE [Alloc(h4, NewNode(search2, Some(LeafNode(key, value))))
                     EXCEPT ![split_node].edges = add_edge(@, Edge(search2[1], Len(h4) + 1))]
        MoveChild(g2, parent) ==
            InsertResult(
                PutLeaf([g2.h EXCEPT
                    ![split_node].edges =
                        add_edge(@, Edge(g2.h[g2.node].prefix[common_prefix_len + 1],
                                         g2.node))]),
                g2.w, Some(parent), None, "")
        Replace(g, r) ==
            MoveChild(get_writable_node([g.h EXCEPT ![g.node].edges = r.edges],
                                        g.w, child_node),
                      g.node)
        Clone(g) == Replace(g, replace_edge(g.h[g.node].edges, Edge(search[1], split_node)))
    IN  Clone(get_writable_node(
                  Alloc(h, NewNode(Take(search, common_prefix_len), None)), w, node))

\* the split branch (lines 114-165), with the child found at the edge; the steps
\* are listed last first
InsertSplit(h, w, node, key, search, value, child_node, common_prefix_len) ==
    LET split_node == Len(h) + 1
        search2 == Drop(search, common_prefix_len)
        \* the leaf goes on the split node, or on a new node below it
        PutLeaf(h4) ==
            IF search2 = <<>>
            THEN [h4 EXCEPT ![split_node].leaf = Some(LeafNode(key, value))]
            ELSE [Alloc(h4, NewNode(search2, Some(LeafNode(key, value))))
                     EXCEPT ![split_node].edges = add_edge(@, Edge(search2[1], Len(h4) + 1))]
        \* the clone of the child is hung below the split node and its prefix cut
        MoveChild(g2, parent) ==
            InsertResult(
                PutLeaf([g2.h EXCEPT
                    ![split_node].edges =
                        add_edge(@, Edge(g2.h[g2.node].prefix[common_prefix_len + 1],
                                         g2.node)),
                    ![g2.node].prefix = Drop(@, common_prefix_len)]),
                g2.w, Some(parent), None, "")
        \* the clone of the node has its edge pointed at the split node
        Replace(g, r) ==
            IF r.panic # ""
            THEN InsertResult([g.h EXCEPT ![g.node].edges = r.edges], g.w, None, None,
                              r.panic)
            ELSE MoveChild(get_writable_node([g.h EXCEPT ![g.node].edges = r.edges],
                                             g.w, child_node),
                           g.node)
        Clone(g) == Replace(g, replace_edge(g.h[g.node].edges, Edge(search[1], split_node)))
    IN  IF ~is_char_boundary(search, common_prefix_len)
        THEN InsertResult(h, w, None, None, SlicePanic)
        ELSE Clone(get_writable_node(
                       Alloc(h, NewNode(Take(search, common_prefix_len), None)), w, node))

RECURSIVE internal_insert(_, _, _, _, _, _)
internal_insert(h, w, node, key, search, value) ==
    IF search = <<>>
    THEN LET old_value == IF is_leaf(h, node) THEN Some(Unwrap(h[node].leaf).value)
                          ELSE None
             PutLeaf(g) ==
                 InsertResult([g.h EXCEPT ![g.node].leaf = Some(LeafNode(key, value))],
                              g.w, Some(g.node), old_value, "")
         IN  PutLeaf(get_writable_node(h, w, node))
    ELSE
    LET node_edge == get_edge(h[node].edges, search[1])
    IN  IF ~IsSome(node_edge)
        THEN LET AddLeaf(g) ==
                     InsertResult([g.h EXCEPT ![g.node].edges =
                                        add_edge(@, Edge(search[1], Len(h) + 1))],
                                  g.w, Some(g.node), None, "")
             IN  AddLeaf(get_writable_node(
                             Alloc(h, NewNode(search, Some(LeafNode(key, value)))), w, node))
        ELSE
        LET edge_idx == Unwrap(node_edge).idx
            child_node == Unwrap(node_edge).node
            common_prefix_len == longest_prefix(search, h[child_node].prefix)
            \* back from the child: the clone of the node gets the new child
            Link(g, r, old) ==
                InsertResult([g.h EXCEPT ![g.node].edges = r.edges], g.w,
                             IF r.panic = "" THEN Some(g.node) ELSE None, old, r.panic)
            Relink(g, new_child, old) ==
                Link(g, replace_edge_at(g.h[g.node].edges, edge_idx,
                                        Edge(search[1], new_child)), old)
            Unwind(sub) ==
                IF sub.panic # "" \/ ~IsSome(sub.node) THEN sub
                ELSE Relink(get_writable_node(sub.h, sub.w, node), Unwrap(sub.node),
                            sub.old)
        IN  IF common_prefix_len = Len(h[child_node].prefix)
            THEN Unwind(internal_insert(h, w, child_node, key,
                                        Drop(search, common_prefix_len), value))
            ELSE InsertSplit(h, w, node, key, search, value, child_node,
                             common_prefix_len)

\* ------------------------------------------------------------ Txn::internal_delete
DeleteResult(h, w, node, leaf, panic) ==
    [h |-> h, w |-> w, node |-> node, leaf |-> leaf, panic |-> panic]

\* the merge both branches of internal_delete end with: m is merge_child's result
DeleteMerged(m, w, node, leaf) ==
    DeleteResult(m.h, w, IF m.panic = "" THEN Some(node) ELSE None, leaf, m.panic)

\* the unwinding of internal_delete (lines 230-252) once the child returned
\* new_child_node: the edge is dropped or replaced, and the node merged
DeleteUnwind(h, w, root, node, label, edge_idx, new_child_node, leaf) ==
    LET Dropped(h1, w1, writable_node) ==
            IF /\ ~NodeEq(h1, root, node)
               /\ ~is_leaf(h1, writable_node)
               /\ edge_len(h1, writable_node) = 1
            THEN DeleteMerged(merge_child(h1, writable_node), w1, writable_node, leaf)
            ELSE DeleteResult(h1, w1, Some(writable_node), leaf, "")
        Replaced(g, r) ==
            DeleteResult([g.h EXCEPT ![g.node].edges = r.edges], g.w,
                         IF r.panic = "" THEN Some(g.node) ELSE None, leaf, r.panic)
        Unwind(g) ==
            IF ~is_leaf(g.h, new_child_node) /\ edge_len(g.h, new_child_node) = 0
            THEN Dropped([g.h EXCEPT ![g.node].edges = delete_edge(@, label)], g.w, g.node)
            ELSE Replaced(g, replace_edge_at(g.h[g.node].edges, edge_idx,
                                             Edge(label, new_child_node)))
    IN  Unwind(get_writable_node(h, w, node))

RECURSIVE internal_delete(_, _, _, _, _)
internal_delete(h, w, root, node, search) ==
    IF search = <<>>
    THEN IF ~is_leaf(h, node) THEN DeleteResult(h, w, None, None, "")
         ELSE LET Taken(h1, w1, new_node, node_leaf) ==
                      IF ~NodeEq(h1, root, node) /\ edge_len(h1, new_node) = 1
                      THEN DeleteMerged(merge_child(h1, new_node), w1, new_node, node_leaf)
                      ELSE DeleteResult(h1, w1, Some(new_node), node_leaf, "")
                  TakeLeaf(g) ==
                      Taken([g.h EXCEPT ![g.node].leaf = None], g.w, g.node,
                            g.h[g.node].leaf)
              IN  TakeLeaf(get_writable_node(h, w, node))
    ELSE
    LET label == search[1]
        node_edge == get_edge(h[node].edges, label)
        Unwind(sub) ==
            IF sub.panic # "" THEN sub
            ELSE IF ~IsSome(sub.node) THEN DeleteResult(sub.h, sub.w, None, None, "")
            ELSE DeleteUnwind(sub.h, sub.w, root, node, label,
                              Unwrap(node_edge).idx, Unwrap(sub.node), sub.leaf)
    IN  IF ~IsSome(node_edge) \/ ~StartsWith(search, h[Unwrap(node_edge).node].prefix)
        THEN DeleteResult(h, w, None, None, "")
        ELSE Unwind(internal_delete(h, w, root, Unwrap(node_edge).node,
                                    Drop(search, Len(h[Unwrap(node_edge).node].prefix))))

\* ------------------------------------------------------------ Txn: public API
\* a Txn value: the working root, the pending size and the clone memo
TxnRec(root, size, writable) == [root |-> root, size |-> size, writable |-> writable]

OpResult(h, x, res, panic) == [h |-> h, x |-> x, res |-> res, panic |-> panic]

\* AtomicU32::fetch_add / fetch_sub wrap around
FetchAdd(size, n) ==
    IF size > U32_TOP - n THEN (size - U32_TOP - 1) + (n - U32_TOP - 1) ELSE size + n
FetchSub(size, n) ==
    IF size < n - U32_TOP - 1 THEN (size + U32_TOP) + (U32_TOP - n) + 2 ELSE size - n

\* the root after a call: the node the descent returned, if it returned one
NewRoot(x, node) == IF IsSome(node) THEN Unwrap(node) ELSE x.root

\* the value of the leaf a delete took
LeafValue(leaf) == IF IsSome(leaf) THEN Some(Unwrap(leaf).value) ELSE None

\* Txn::insert that never installs the node internal_insert returned
TxnInsert_RootKept(h, x, key, value) ==
    LET Done(r) ==
            OpResult(r.h,
                     TxnRec(x.root, IF IsSome(r.old) THEN x.size ELSE FetchAdd(x.size, 1),
                            r.w),
                     r.old, r.panic)
    IN  Done(internal_insert(h, x.writable, x.root, key, key, value))

\* Txn::insert that counts the updates instead of the new keys
TxnInsert_SizeOnUpdate(h, x, key, value) ==
    LET Done(r) ==
            OpResult(r.h,
                     TxnRec(NewRoot(x, r.node),
                            IF IsSome(r.old) THEN FetchAdd(x.size, 1) ELSE x.size, r.w),
                     r.old, r.panic)
    IN  Done(internal_insert(h, x.writable, x.root, key, key, value))

\* Txn::insert
TxnInsert(h, x, key, value) ==
    LET Done(r) ==
            IF r.panic # "" THEN OpResult(r.h, TxnRec(x.root, x.size, r.w), None, r.panic)
            ELSE OpResult(r.h,
                          TxnRec(NewRoot(x, r.node),
                                 IF IsSome(r.old) THEN x.size ELSE FetchAdd(x.size, 1),
                                 r.w),
                          r.old, "")
    IN  Done(internal_insert(h, x.writable, x.root, key, key, value))

\* Txn::delete that returns the value and leaves the size alone
TxnDelete_SizeKept(h, x, key) ==
    LET Done(r) ==
            OpResult(r.h, TxnRec(NewRoot(x, r.node), x.size, r.w), LeafValue(r.leaf),
                     r.panic)
    IN  Done(internal_delete(h, x.writable, x.root, x.root, key))

\* Txn::delete that clones the root before it searches for the key
TxnDelete_RootCloned(h, x, key) ==
    LET Done(g, r) ==
            OpResult(r.h,
                     TxnRec(IF IsSome(r.node) THEN Unwrap(r.node) ELSE g.node,
                            IF IsSome(r.leaf) THEN FetchSub(x.size, 1) ELSE x.size,
                            r.w),
                     LeafValue(r.leaf), r.panic)
        Start(g) == Done(g, internal_delete(g.h, g.w, g.node, g.node, key))
    IN  Start(get_writable_node(h, x.writable, x.root))

\* Txn::delete
TxnDelete(h, x, key) ==
    LET Done(r) ==
            IF r.panic # "" THEN OpResult(r.h, TxnRec(x.root, x.size, r.w), None, r.panic)
            ELSE OpResult(r.h,
                          TxnRec(NewRoot(x, r.node),
                                 IF IsSome(r.leaf) THEN FetchSub(x.size, 1) ELSE x.size,
                                 r.w),
                          LeafValue(r.leaf), "")
    IN  Done(internal_delete(h, x.writable, x.root, x.root, key))

\* Txn::get and Txn::len: the working root's Node::get and the pending size
TxnGet(h, x, key) == NodeGet(h, x.root, key)
TxnLen(x) == x.size

\* ------------------------------------------------------------ Txn::delete_prefix
\* the leaves of the subtree under n
RECURSIVE CountLeaves(_, _)
RECURSIVE CountLeavesOfEdges(_, _, _)
CountLeaves(h, n) ==
    (IF is_leaf(h, n) THEN 1 ELSE 0) + CountLeavesOfEdges(h, h[n].edges, 1)
CountLeavesOfEdges(h, es, i) ==
    IF i > Len(es) THEN 0
    ELSE CountLeaves(h, es[i].node) + CountLeavesOfEdges(h, es, i + 1)

PrefixResult(h, w, node, count, panic) ==
    [h |-> h, w |-> w, node |-> node, count |-> count, panic |-> panic]

RECURSIVE internal_delete_prefix(_, _, _, _, _)
internal_delete_prefix(h, w, root, node, search) ==
    IF search = <<>>
    THEN LET Cut(g) ==
                 PrefixResult([g.h EXCEPT ![g.node].leaf = None, ![g.node].edges = <<>>],
                              g.w, Some(g.node), CountLeaves(h, node), "")
         IN  Cut(get_writable_node(h, w, node))
    ELSE
    LET label == search[1]
        node_edge == get_edge(h[node].edges, label)
        Counted(u, count) == PrefixResult(u.h, u.w, u.node, count, u.panic)
        Unwind(sub) ==
            IF sub.panic # "" THEN sub
            ELSE IF ~IsSome(sub.node) THEN PrefixResult(sub.h, sub.w, None, 0, "")
            ELSE Counted(DeleteUnwind(sub.h, sub.w, root, node, label,
                                      Unwrap(node_edge).idx, Unwrap(sub.node), None),
                         sub.count)
        Descend(child_node) ==
            Unwind(internal_delete_prefix(h, w, root, child_node,
                       IF Len(h[child_node].prefix) > Len(search) THEN <<>>
                       ELSE Drop(search, Len(h[child_node].prefix))))
    IN  IF \/ ~IsSome(node_edge)
           \/ /\ ~StartsWith(h[Unwrap(node_edge).node].prefix, search)
              /\ ~StartsWith(search, h[Unwrap(node_edge).node].prefix)
        THEN PrefixResult(h, w, None, 0, "")
        ELSE Descend(Unwrap(node_edge).node)

\* delete_prefix that searches for the prefix less its last byte
TxnDeletePrefix_OneShort(h, x, prefix) ==
    LET Done(r) ==
            OpResult(r.h, TxnRec(NewRoot(x, r.node), FetchSub(x.size, r.count), r.w),
                     r.count > 0, r.panic)
    IN  Done(internal_delete_prefix(h, x.writable, x.root, x.root,
                 Take(prefix, IF Len(prefix) = 0 THEN 0 ELSE Len(prefix) - 1)))

\* delete_prefix that takes one off the size, whatever the count of the leaves
TxnDeletePrefix_CountOne(h, x, prefix) ==
    LET Done(r) ==
            IF r.panic # "" THEN OpResult(r.h, TxnRec(x.root, x.size, r.w), FALSE, r.panic)
            ELSE OpResult(r.h,
                          TxnRec(NewRoot(x, r.node),
                                 FetchSub(x.size, IF r.count > 0 THEN 1 ELSE 0), r.w),
                          r.count > 0, "")
    IN  Done(internal_delete_prefix(h, x.writable, x.root, x.root, prefix))

\* Txn::delete_prefix
TxnDeletePrefix(h, x, prefix) ==
    LET Done(r) ==
            IF r.panic # "" THEN OpResult(r.h, TxnRec(x.root, x.size, r.w), FALSE, r.panic)
            ELSE OpResult(r.h,
                          TxnRec(NewRoot(x, r.node), FetchSub(x.size, r.count), r.w),
                          r.count > 0, "")
    IN  Done(internal_delete_prefix(h, x.writable, x.root, x.root, prefix))

\* ------------------------------------------------------------ Tree
TreeRec(root, size) == [root |-> root, size |-> size]

\* Tree::start_transaction
start_transaction(tree) == TxnRec(tree.root, tree.size, <<>>)

\* Txn::commit
commit(x) == TreeRec(x.root, x.size)

\* Tree::get, Tree::len
TreeGet(h, tree, key) == NodeGet(h, tree.root, key)
TreeLen(tree) == tree.size

\* Tree::insert: one transaction, one insert, commit
TreeInsert(h, tree, key, value) ==
    LET Committed(r) == [h |-> r.h, tree |-> commit(r.x), res |-> r.res, panic |-> r.panic]
    IN  Committed(TxnInsert(h, start_transaction(tree), key, value))

\* Tree::delete that hands back the tree it was called on
TreeDelete_Uncommitted(h, tree, key) ==
    LET Committed(r) == [h |-> r.h, tree |-> tree, res |-> r.res, panic |-> r.panic]
    IN  Committed(TxnDelete(h, start_transaction(tree), key))

\* Tree::delete, Tree::delete_prefix: likewise
TreeDelete(h, tree, key) ==
    LET Committed(r) == [h |-> r.h, tree |-> commit(r.x), res |-> r.res, panic |-> r.panic]
    IN  Committed(TxnDelete(h, start_transaction(tree), key))

TreeDeletePrefix(h, tree, prefix) ==
    LET Committed(r) == [h |-> r.h, tree |-> commit(r.x), res |-> r.res, panic |-> r.panic]
    IN  Committed(TxnDeletePrefix(h, start_transaction(tree), prefix))

\* Clone for Txn that starts the clone's size at zero
TxnClone_SizeZero(x) == TxnRec(x.root, 0, <<>>)

\* Clone for Txn: the same root Arc, the size loaded, no memo
TxnClone(x) == TxnRec(x.root, x.size, <<>>)

\* ------------------------------------------------------------ Node: ordered reads
\* Node::longest_prefix that keeps the first leaf it meets, not the last
RECURSIVE NodeLongestPrefix_FirstLeaf(_, _, _, _)
NodeLongestPrefix_FirstLeaf(h, n, search, last_leaf) ==
    LET found == IF IsSome(last_leaf) THEN last_leaf
                 ELSE IF is_leaf(h, n) THEN h[n].leaf ELSE None
    IN  IF search = <<>> THEN found
        ELSE LET e == get_edge(h[n].edges, search[1])
             IN  IF ~IsSome(e) THEN found
                 ELSE IF StartsWith(search, h[Unwrap(e).node].prefix)
                 THEN NodeLongestPrefix_FirstLeaf(h, Unwrap(e).node,
                          Drop(search, Len(h[Unwrap(e).node].prefix)), found)
                 ELSE found

\* Node::longest_prefix: the leaf of the deepest node on the path of search
RECURSIVE NodeLongestPrefix(_, _, _, _)
NodeLongestPrefix(h, n, search, last_leaf) ==
    LET found == IF is_leaf(h, n) THEN h[n].leaf ELSE last_leaf
    IN  IF search = <<>> THEN found
        ELSE LET e == get_edge(h[n].edges, search[1])
             IN  IF ~IsSome(e) THEN found
                 ELSE IF StartsWith(search, h[Unwrap(e).node].prefix)
                 THEN NodeLongestPrefix(h, Unwrap(e).node,
                                        Drop(search, Len(h[Unwrap(e).node].prefix)), found)
                 ELSE found

longest_prefix_of(h, n, key) == NodeLongestPrefix(h, n, key, None)

\* Node::minimum: the node's own leaf at once, else down the first edge
RECURSIVE NodeMinimum(_, _)
NodeMinimum(h, n) ==
    IF is_leaf(h, n) THEN h[n].leaf
    ELSE IF edge_len(h, n) = 0 THEN None
    ELSE NodeMinimum(h, h[n].edges[1].node)

\* Node::maximum: down the last edge to a node without edges, then its leaf
RECURSIVE NodeMaximum(_, _)
NodeMaximum(h, n) ==
    IF edge_len(h, n) > 0 THEN NodeMaximum(h, h[n].edges[Len(h[n].edges)].node)
    ELSE IF is_leaf(h, n) THEN h[n].leaf
    ELSE None

\* ------------------------------------------------------------ the state
VARIABLES
    heap,    \* the node graph: heap[n] is the node of identity n
    trees,   \* the Tree values published so far, the initial one first
    txn,     \* per transaction: its stage, its Txn value, the tree it was started
             \* from and what that tree answered then
    solo,    \* per transaction: the same calls run alone on a private copy of the
             \* heap taken when it was started
    ref,     \* per transaction: a plain key-value map and count given the same calls
    last,    \* the last call, what it returned and what its transaction answered
             \* just before it
    ops      \* the number of mutating calls so far

vars == <<heap, trees, txn, solo, ref, last, ops>>

\* Tree::new()
\* a new tree that counts its root as a key
NewTree_SizeOne == [h |-> <<DefaultNode>>, tree |-> TreeRec(1, 1)]

NewTree == [h |-> <<DefaultNode>>, tree |-> TreeRec(1, 0)]

\* byte-lexicographic order on keys
RECURSIVE KeyLess(_, _)
KeyLess(a, b) ==
    IF a = <<>> THEN b # <<>>
    ELSE IF b = <<>> THEN FALSE
    ELSE IF a[1] # b[1] THEN a[1] < b[1]
    ELSE KeyLess(Tail(a), Tail(b))

\* the tree Tree::new().insert(k1, 1).0.insert(k2, 1).0 ... for the keys of S in
\* ascending order
RECURSIVE BuildTree(_, _)
BuildTree(b, S) ==
    IF S = {} THEN b
    ELSE LET k == CHOOSE x \in S : \A y \in S \ {x} : KeyLess(x, y)
             Grown(r) == BuildTree([h |-> r.h, tree |-> r.tree], S \ {k})
         IN  Grown(TreeInsert(b.h, b.tree, k, 1))

InitKeySets == {S \in SUBSET Keys : Cardinality(S) <= MaxInitKeys}

\* what a reader of a root sees: every key's lookup
View(h, root) == [k \in Keys |-> NodeGet(h, root, k)]

\* every key's lookup together with len()
Answers(h, root, size) == [get |-> View(h, root), len |-> size]
NoAnswers == [get |-> [k \in Keys |-> None], len |-> 0]

IdleTxn == [st |-> "idle", x |-> TxnRec(0, 0, <<>>), base |-> 0, seen |-> NoAnswers]
IdleSolo == [h |-> <<>>, x |-> TxnRec(0, 0, <<>>), res |-> None]
IdleRef == NoAnswers

\* again: the call repeats, on the same transaction and key, a delete that had
\* just removed the key
Call(op, t, key, value, res, panic, pre) ==
    [op |-> op, txn |-> t, key |-> key, value |-> value, res |-> res, panic |-> panic,
     pre |-> pre,
     again |-> /\ op = "delete" /\ last.op = "delete" /\ last.txn = t
               /\ last.key = key /\ IsSome(last.res)]

Before(t) == Answers(heap, txn[t].x.root, txn[t].x.size)

Init ==
    \E S \in InitKeySets :
        LET Built(b) ==
                /\ heap = b.h
                /\ trees = <<b.tree>>
                /\ txn = [t \in TxnIds |-> IdleTxn]
                /\ solo = [t \in TxnIds |-> IdleSolo]
                /\ ref = [t \in TxnIds |-> IdleRef]
                /\ last = [op |-> "new", txn |-> 0, key |-> <<>>, value |-> 0,
                            res |-> None, panic |-> "", pre |-> NoAnswers,
                            again |-> FALSE]
                /\ ops = 0
        IN  Built(BuildTree(NewTree, S))

Running == last.panic = "" /\ ops < MaxOps

\* let txn = tree.start_transaction();
StartTransaction(t, i) ==
    /\ Running
    /\ txn[t].st = "idle"
    /\ \A u \in TxnIds : u < t => txn[u].st # "idle"
    /\ i \in 1..Len(trees)
    /\ LET Begun(x, seen) ==
               /\ txn' = [txn EXCEPT ![t] = [st |-> "open", x |-> x, base |-> i,
                                             seen |-> seen]]
               /\ solo' = [solo EXCEPT ![t] = [h |-> heap, x |-> x, res |-> None]]
               /\ ref' = [ref EXCEPT ![t] = seen]
       IN  Begun(start_transaction(trees[i]),
                    Answers(heap, trees[i].root, trees[i].size))
    /\ last' = Call("start", t, <<>>, 0, None, "", NoAnswers)
    /\ UNCHANGED <<heap, trees, ops>>

\* txn.insert(key, value)
Insert(t, key, value) ==
    /\ Running
    /\ txn[t].st = "open"
    /\ ops < MaxOps
    /\ LET Called(r, s) ==
               /\ heap' = r.h
               /\ txn' = [txn EXCEPT ![t].x = r.x]
               /\ solo' = [solo EXCEPT ![t] = [h |-> s.h, x |-> s.x, res |-> s.res]]
               /\ last' = Call("insert", t, key, value, r.res, r.panic, Before(t))
       IN  Called(TxnInsert(heap, txn[t].x, key, value),
                  TxnInsert(solo[t].h, solo[t].x, key, value))
    /\ ref' = [ref EXCEPT ![t].get[key] = Some(value),
                          ![t].len = IF IsSome(ref[t].get[key]) THEN @ ELSE @ + 1]
    /\ ops' = ops + 1
    /\ UNCHANGED trees

\* txn.delete(key)
Delete(t, key) ==
    /\ Running
    /\ txn[t].st = "open"
    /\ ops < MaxOps
    /\ LET Called(r, s) ==
               /\ heap' = r.h
               /\ txn' = [txn EXCEPT ![t].x = r.x]
               /\ solo' = [solo EXCEPT ![t] = [h |-> s.h, x |-> s.x, res |-> s.res]]
               /\ last' = Call("delete", t, key, 0, r.res, r.panic, Before(t))
       IN  Called(TxnDelete(heap, txn[t].x, key),
                  TxnDelete(solo[t].h, solo[t].x, key))
    /\ ref' = [ref EXCEPT ![t].get[key] = None,
                          ![t].len = IF IsSome(ref[t].get[key]) THEN @ - 1 ELSE @]
    /\ ops' = ops + 1
    /\ UNCHANGED trees

\* txn.delete_prefix(prefix)
DeletePrefix(t, prefix) ==
    /\ Running
    /\ txn[t].st = "open"
    /\ ops < MaxOps
    /\ LET Called(r, s) ==
               /\ heap' = r.h
               /\ txn' = [txn EXCEPT ![t].x = r.x]
               /\ solo' = [solo EXCEPT ![t] = [h |-> s.h, x |-> s.x, res |-> s.res]]
               /\ last' = Call("delete_prefix", t, prefix, 0, r.res, r.panic, Before(t))
       IN  Called(TxnDeletePrefix(heap, txn[t].x, prefix),
                  TxnDeletePrefix(solo[t].h, solo[t].x, prefix))
    /\ LET gone == {k \in Keys : StartsWith(k, prefix) /\ IsSome(ref[t].get[k])}
       IN  ref' = [ref EXCEPT ![t].get = [k \in Keys |-> IF k \in gone THEN None ELSE @[k]],
                              ![t].len = @ - Cardinality(gone)]
    /\ ops' = ops + 1
    /\ UNCHANGED trees

\* tree = txn.commit(): the transaction is consumed
Commit(t) ==
    /\ Running
    /\ txn[t].st = "open"
    /\ trees' = Append(trees, commit(txn[t].x))
    /\ txn' = [txn EXCEPT ![t].st = "done"]
    /\ last' = Call("commit", t, <<>>, 0, None, "", NoAnswers)
    /\ UNCHANGED <<heap, solo, ref, ops>>

Next ==
    \/ \E t \in TxnIds, i \in 1..(MaxTxn + 1) : StartTransaction(t, i)
    \/ \E t \in TxnIds, key \in Keys, value \in Vals : Insert(t, key, value)
    \/ \E t \in TxnIds, key \in Keys : Delete(t, key)
    \/ \E t \in TxnIds, prefix \in Keys : DeletePrefix(t, prefix)
    \/ \E t \in TxnIds : Commit(t)

Spec == Init /\ [][Next]_vars

\* ------------------------------------------------------------ the Tree facade, Txn::clone
\* the tree answers before a call, as the call's record keeps them
TreeBefore(i) == Answers(heap, trees[i].root, trees[i].size)

\* a facade call on tree i: the new tree is published, the old one stays; src is
\* the tree called on
TreeCalled(op, i, key, value, r) ==
    /\ heap' = r.h
    /\ trees' = Append(trees, r.tree)
    /\ last' = [src |-> i] @@ Call(op, 0, key, value, r.res, r.panic, TreeBefore(i))
    /\ ops' = ops + 1
    /\ UNCHANGED <<txn, solo, ref>>

\* let (new_tree, old) = tree.insert(key, value);
TreeInsertOp(i, key, value) ==
    /\ Running
    /\ i \in 1..Len(trees)
    /\ TreeCalled("tree_insert", i, key, value,
                  TreeInsert(heap, trees[i], key, value))

\* let (new_tree, old) = tree.delete(key);
TreeDeleteOp(i, key) ==
    /\ Running
    /\ i \in 1..Len(trees)
    /\ TreeCalled("tree_delete", i, key, 0, TreeDelete(heap, trees[i], key))

\* let (new_tree, has_deleted) = tree.delete_prefix(prefix);
TreeDeletePrefixOp(i, prefix) ==
    /\ Running
    /\ i \in 1..Len(trees)
    /\ TreeCalled("tree_delete_prefix", i, prefix, 0,
                  TreeDeletePrefix(heap, trees[i], prefix))

\* let u = t.clone(): src is the transaction cloned
Clone(t, u) ==
    /\ Running
    /\ txn[t].st = "open"
    /\ txn[u].st = "idle"
    /\ \A v \in TxnIds : v < u => txn[v].st # "idle"
    /\ txn' = [txn EXCEPT ![u] = [st |-> "open", x |-> TxnClone(txn[t].x),
                                  base |-> txn[t].base, seen |-> txn[t].seen]]
    /\ solo' = [solo EXCEPT ![u] = [h |-> heap, x |-> TxnClone(txn[t].x), res |-> None]]
    /\ ref' = [ref EXCEPT ![u] = Before(t)]
    /\ last' = [src |-> t] @@ Call("clone", u, <<>>, 0, None, "", Before(t))
    /\ UNCHANGED <<heap, trees, ops>>

NextApi ==
    \/ \E i \in 1..(MaxTxn + MaxOps + 1) : StartTransaction(1, i)
    \/ \E t \in TxnIds, key \in Keys, value \in Vals : Insert(t, key, value)
    \/ \E t \in TxnIds, key \in Keys : Delete(t, key)
    \/ \E t \in TxnIds : Commit(t)
    \/ \E t \in TxnIds, u \in TxnIds : Clone(t, u)
    \/ \E i \in 1..(MaxTxn + MaxOps + 1), key \in Keys, value \in Vals :
          TreeInsertOp(i, key, value)
    \/ \E i \in 1..(MaxTxn + MaxOps + 1), key \in Keys : TreeDeleteOp(i, key)
    \/ \E i \in 1..(MaxTxn + MaxOps + 1), prefix \in Keys : TreeDeletePrefixOp(i, prefix)

SpecApi == Init /\ [][NextApi]_vars

\* ------------------------------------------------------------ what the claims speak of
Mutating == {"insert", "delete", "delete_prefix"}

Started == {t \in TxnIds : txn[t].st # "idle"}
Open == {t \in TxnIds : txn[t].st = "open"}

\* the tree a transaction was started from
BaseOf(t) == trees[txn[t].base]

\* p is a byte-prefix of k
IsPrefix(p, k) == \E n \in 0..Len(k) : SubSeq(k, 1, n) = p

\* the keys a root answers for
StoredKeys(h, root) == {k \in Keys : IsSome(NodeGet(h, root, k))}

\* the nodes below a node, the node itself excluded
RECURSIVE Below(_, _)
Below(h, n) ==
    UNION {{h[n].edges[i].node} \cup Below(h, h[n].edges[i].node) :
           i \in 1..Len(h[n].edges)}

\* every root in use: the published trees and the working roots
Roots == {trees[i].root : i \in 1..Len(trees)} \cup {txn[t].x.root : t \in Open}

\* the leaves that hang in the tree of a root
LeavesOf(h, root) ==
    {Unwrap(h[n].leaf) : n \in {m \in {root} \cup Below(h, root) : is_leaf(h, m)}}

\* the call just made was call op of a transaction and returned
Returned(op) == last.op = op /\ last.panic = ""

\* the transaction of the last call, as it is now
Cur == txn[last.txn].x

\* C1: persistence. Whatever has been called on a transaction, the tree it was
\* started from answers every get and len() as it did when the transaction was
\* started.
C1_Persistence ==
    \A t \in Started :
        Answers(heap, BaseOf(t).root, BaseOf(t).size) = txn[t].seen

\* C2: independent transactions. Each transaction's last result, its lookups
\* and its size are those of the same calls run alone on the snapshot.
C2_Independent ==
    \A t \in Started :
        /\ View(heap, txn[t].x.root) = View(solo[t].h, solo[t].x.root)
        /\ txn[t].x.size = solo[t].x.size
        /\ (last.txn = t /\ last.op \in Mutating) => last.res = solo[t].res

\* C3: round trip. Right after insert(k, v) the transaction, and the tree it
\* would commit, answer get(k) with v.
C3_RoundTrip ==
    Returned("insert") =>
        /\ TxnGet(heap, Cur, last.key) = Some(last.value)
        /\ TreeGet(heap, commit(Cur), last.key) = Some(last.value)

C3_Witness ==
    /\ Returned("insert")
    /\ IsSome(last.pre.get[last.key])
    /\ last.pre.get[last.key] # Some(last.value)
    /\ TxnGet(heap, Cur, last.key) = Some(last.value)

\* C4: update semantics. insert on a stored key returns the stored value and
\* keeps len(); insert on a key that is not stored returns None and adds 1.
C4_Update ==
    Returned("insert") =>
        IF IsSome(last.pre.get[last.key])
        THEN last.res = last.pre.get[last.key] /\ TxnLen(Cur) = last.pre.len
        ELSE last.res = None /\ TxnLen(Cur) = last.pre.len + 1

C4_WitnessUpdate ==
    /\ Returned("insert")
    /\ last.pre.get[last.key] = Some(1)
    /\ last.value = 2
    /\ last.res = Some(1)
    /\ TxnLen(Cur) = last.pre.len

C4_WitnessNew ==
    /\ Returned("insert")
    /\ last.pre.get[last.key] = None
    /\ last.res = None
    /\ TxnLen(Cur) = last.pre.len + 1

C4_Witness == C4_WitnessUpdate \/ (C4_WitnessNew /\ last.pre.len > 0)

\* C5: delete semantics. delete of a stored key returns its value, takes 1 off
\* len() and leaves get(k) absent; the delete repeated at once returns None and
\* keeps len().
C5_Delete ==
    Returned("delete") =>
        /\ IF IsSome(last.pre.get[last.key])
           THEN /\ last.res = last.pre.get[last.key]
                /\ last.pre.len >= 1
                /\ TxnLen(Cur) = last.pre.len - 1
                /\ TxnGet(heap, Cur, last.key) = None
           ELSE last.res = None /\ TxnLen(Cur) = last.pre.len
        /\ last.again => last.res = None /\ TxnLen(Cur) = last.pre.len

C5_Witness ==
    /\ Returned("delete")
    /\ last.again
    /\ last.res = None
    /\ TxnLen(Cur) = last.pre.len

\* C6: prefix deletion is exact. After delete_prefix(p) the keys with prefix p
\* are gone, every other key answers as before, and the call returned true
\* iff a key was removed.
C6_PrefixExact ==
    Returned("delete_prefix") =>
        /\ \A k \in Keys :
              TxnGet(heap, Cur, k) =
                  IF IsPrefix(last.key, k) THEN None ELSE last.pre.get[k]
        /\ last.res = (\E k \in Keys : IsPrefix(last.key, k) /\ IsSome(last.pre.get[k]))

C6_Witness ==
    /\ Returned("delete_prefix")
    /\ last.res = TRUE
    /\ \E k \in Keys : ~IsPrefix(last.key, k) /\ IsSome(TxnGet(heap, Cur, k))
    /\ \E k \in Keys : k # last.key /\ IsPrefix(last.key, k) /\ IsSome(last.pre.get[k])

\* C7: delete_prefix(p) with no stored key under p returns false and changes
\* neither len() nor any get.
C7_PrefixMiss ==
    (Returned("delete_prefix")
        /\ ~\E k \in Keys : IsPrefix(last.key, k) /\ IsSome(last.pre.get[k])) =>
        /\ last.res = FALSE
        /\ Answers(heap, Cur.root, Cur.size) = last.pre

C7_Witness ==
    /\ Returned("delete_prefix")
    /\ last.res = FALSE
    /\ \E k \in Keys : IsSome(last.pre.get[k])
    /\ Answers(heap, Cur.root, Cur.size) = last.pre

\* C8: structural invariant. Below no root in use is there a node with exactly
\* one edge and no leaf.
C8_Structure ==
    \A r \in Roots : \A n \in Below(heap, r) :
        ~(edge_len(heap, n) = 1 /\ ~is_leaf(heap, n))

\* C9: size invariant. Every tree's and every open transaction's len() is the
\* number of leaves under its root and the number of keys it answers for, and
\* it has not wrapped below 0; a call changes it by the keys it added or removed.
SizeCounts(root, size) ==
    /\ size >= 0
    /\ size = CountLeaves(heap, root)
    /\ size = Cardinality(StoredKeys(heap, root))

C9_Size ==
    /\ \A i \in 1..Len(trees) : SizeCounts(trees[i].root, trees[i].size)
    /\ \A t \in Open : SizeCounts(txn[t].x.root, txn[t].x.size)
    /\ (last.op \in Mutating /\ last.panic = "") =>
          TxnLen(Cur) = last.pre.len + Cardinality(StoredKeys(heap, Cur.root))
                                     - Cardinality({k \in Keys : IsSome(last.pre.get[k])})

\* C10: read your writes. An open transaction answers get and len() as a plain
\* map given the same calls would, and the tree it was started from answers as
\* it did at the start.
C10_ReadYourWrites ==
    \A t \in Open :
        /\ Answers(heap, txn[t].x.root, txn[t].x.size) = ref[t]
        /\ Answers(heap, BaseOf(t).root, BaseOf(t).size) = txn[t].seen

\* ------------------------------------------------------------ scripted runs
\* Runs from Tree::new() over a key set K of their own: one transaction, its
\* calls recorded with what it answered just before over K.
InitNew ==
    /\ heap = NewTree.h
    /\ trees = <<NewTree.tree>>
    /\ txn = [t \in TxnIds |-> IdleTxn]
    /\ solo = [t \in TxnIds |-> IdleSolo]
    /\ ref = [t \in TxnIds |-> IdleRef]
    /\ last = [op |-> "tree_new", txn |-> 0, key |-> <<>>, value |-> 0, res |-> None,
                panic |-> "", pre |-> NoAnswers, again |-> FALSE]
    /\ ops = 0

AnswersOver(K, h, x) == [get |-> [k \in K |-> TxnGet(h, x, k)], len |-> TxnLen(x)]

ScriptCalled(op, K, t, key, value, r) ==
    /\ heap' = r.h
    /\ txn' = [txn EXCEPT ![t].x = r.x]
    /\ last' = Call(op, t, key, value, r.res, r.panic, AnswersOver(K, heap, txn[t].x))
    /\ ops' = ops + 1
    /\ UNCHANGED <<trees, solo, ref>>

ScriptReady(t, cap) == last.panic = "" /\ txn[t].st = "open" /\ ops < cap

ScriptInsert(K, cap, t, key, value) ==
    /\ ScriptReady(t, cap)
    /\ ScriptCalled("insert", K, t, key, value, TxnInsert(heap, txn[t].x, key, value))

ScriptDelete(K, cap, t, key) ==
    /\ ScriptReady(t, cap)
    /\ ScriptCalled("delete", K, t, key, 0, TxnDelete(heap, txn[t].x, key))

ScriptDeletePrefix(K, cap, t, prefix) ==
    /\ ScriptReady(t, cap)
    /\ ScriptCalled("delete_prefix", K, t, prefix, 0,
                    TxnDeletePrefix(heap, txn[t].x, prefix))

\* ------------------------------------------------------------ keys of multi-byte characters
\* "a", and U+00E8 and U+00E9, whose UTF-8 encodings share the lead byte 0xC3
Utf8Chars == {<<97>>, <<195, 168>>, <<195, 169>>}

RECURSIVE Utf8Strings(_)
Utf8Strings(n) ==
    IF n = 0 THEN {<<>>}
    ELSE LET S == Utf8Strings(n - 1) IN S \cup {s \o c : s \in S, c \in Utf8Chars}

Utf8Keys == Utf8Strings(MaxChars)

NextUtf8 ==
    \/ StartTransaction(1, 1)
    \/ \E key \in Utf8Keys, value \in Vals : ScriptInsert(Utf8Keys, MaxOps, 1, key, value)
    \/ \E key \in Utf8Keys : ScriptDelete(Utf8Keys, MaxOps, 1, key)
    \/ \E prefix \in Utf8Keys : ScriptDeletePrefix(Utf8Keys, MaxOps, 1, prefix)

SpecUtf8 == InitNew /\ [][NextUtf8]_vars

\* C12: totality. No call panics, whatever the key.
C12_Total == last.panic = ""

\* the keys whose path ends at a node of the tree that has no leaf
PathsWithoutLeaf(h, root) ==
    {k \in Keys : /\ \E l \in LeavesOf(h, root) : l.key # k /\ IsPrefix(k, l.key)
                  /\ ~\E l \in LeavesOf(h, root) : l.key = k}

PrefixLeaves(h, root, q) == {l \in LeavesOf(h, root) : IsPrefix(l.key, q)}

IsLeast(l, L) == l \in L /\ \A m \in L : m.key = l.key \/ KeyLess(l.key, m.key)
IsGreatest(l, L) == l \in L /\ \A m \in L : m.key = l.key \/ KeyLess(m.key, l.key)

\* C15: ordered extremes. In every tree and working root, minimum() is the
\* stored key that is smallest in byte order, maximum() the largest, each
\* with its value, and both are None iff nothing is stored.
C15_Extremes ==
    \A r \in Roots :
        IF LeavesOf(heap, r) = {}
        THEN NodeMinimum(heap, r) = None /\ NodeMaximum(heap, r) = None
        ELSE /\ IsSome(NodeMinimum(heap, r))
             /\ IsLeast(Unwrap(NodeMinimum(heap, r)), LeavesOf(heap, r))
             /\ IsSome(NodeMaximum(heap, r))
             /\ IsGreatest(Unwrap(NodeMaximum(heap, r)), LeavesOf(heap, r))

\* ------------------------------------------------------------ the split scenario
\* "001", "002", "003", "010" in ASCII
K001 == <<48, 48, 49>>
K002 == <<48, 48, 50>>
K003 == <<48, 48, 51>>
K010 == <<48, 49, 48>>
SplitKeys == {K001, K002, K003, K010}

NextSplit ==
    \/ StartTransaction(1, 1)
    \/ \E key \in SplitKeys, value \in Vals :
          ScriptInsert(SplitKeys, Cardinality(SplitKeys), 1, key, value)

SpecSplit == InitNew /\ [][NextSplit]_vars

\* the keys of K that answers ans holds
StoredIn(K, ans) == {k \in K : IsSome(ans.get[k])}

\* node n is a childless leaf node with this prefix, holding this key
IsLeafNode(h, n, prefix, key) ==
    /\ h[n].prefix = prefix
    /\ h[n].edges = <<>>
    /\ IsSome(h[n].leaf)
    /\ Unwrap(h[n].leaf).key = key

\* node n has this prefix, no leaf, and the three leaf children "1", "2", "3"
HoldsThree(h, n, prefix) ==
    /\ h[n].prefix = prefix
    /\ h[n].leaf = None
    /\ [i \in 1..Len(h[n].edges) |-> h[n].edges[i].label] = <<49, 50, 51>>
    /\ IsLeafNode(h, h[n].edges[1].node, <<49>>, K001)
    /\ IsLeafNode(h, h[n].edges[2].node, <<50>>, K002)
    /\ IsLeafNode(h, h[n].edges[3].node, <<51>>, K003)

\* the root has the one edge '0'
RootEdge0(h, root) ==
    /\ h[root].prefix = <<>>
    /\ Len(h[root].edges) = 1
    /\ h[root].edges[1].label = 48

\* after the three inserts
ShapeThree(h, root) ==
    /\ RootEdge0(h, root)
    /\ HoldsThree(h, h[root].edges[1].node, <<48, 48>>)

\* after "010" as well: the node at edge '0' has prefix "0", no leaf and two
\* children, the prior node under the given prefix and the leaf "10"
ShapeFour(h, root, prior_prefix) ==
    /\ RootEdge0(h, root)
    /\ LET n == h[root].edges[1].node
       IN  /\ h[n].prefix = <<48>>
           /\ h[n].leaf = None
           /\ [i \in 1..Len(h[n].edges) |-> h[n].edges[i].label] = <<48, 49>>
           /\ HoldsThree(h, h[n].edges[1].node, prior_prefix)
           /\ IsLeafNode(h, h[n].edges[2].node, <<49, 48>>, K010)

\* the three inserts of "001", "002", "003" have been made, nothing else
AfterThree ==
    /\ Returned("insert")
    /\ ops = 3
    /\ {l.key : l \in LeavesOf(heap, Cur.root)} = {K001, K002, K003}

\* "010" has been inserted after them
AfterFour ==
    /\ Returned("insert")
    /\ ops = 4
    /\ last.key = K010
    /\ last.pre.len = 3
    /\ {l.key : l \in LeavesOf(heap, Cur.root)} = SplitKeys

\* C16: the split scenario, the prior node's prefix being what is left of it
\* below the split node: "0".
C16_Split ==
    /\ AfterThree => ShapeThree(heap, Cur.root)
    /\ AfterFour => ShapeFour(heap, Cur.root, <<48>>)

C16_Witness == AfterFour /\ ShapeFour(heap, Cur.root, <<48>>) /\ TxnLen(Cur) = 4

\* C16 as stated: the prior node is a "00"-prefixed child.
C16_AsStated ==
    /\ AfterThree => ShapeThree(heap, Cur.root)
    /\ AfterFour => ShapeFour(heap, Cur.root, <<48, 48>>)

\* ------------------------------------------------------------ the prefix-deletion scenario
\* "", "test", "test/test1", "test/test2", "test/test3", "R", "RA" in ASCII
KTest == <<116, 101, 115, 116>>
KTestN(c) == KTest \o <<47>> \o KTest \o <<c>>
KR == <<82>>
KRA == <<82, 65>>
PrefixKeys == {<<>>, KTest, KTestN(49), KTestN(50), KTestN(51), KR, KRA}

\* the scenario's calls: each key is inserted once, in any order, and a prefix is
\* deleted once all the keys, or all but one, are stored
PrefixCap == Cardinality(PrefixKeys) + 1

NextPrefix ==
    \/ StartTransaction(1, 1)
    \/ \E key \in PrefixKeys :
          /\ txn[1].st = "open"
          /\ TxnGet(heap, txn[1].x, key) = None
          /\ ScriptInsert(PrefixKeys, PrefixCap, 1, key, (Len(key) % MaxVal) + 1)
    \/ \E prefix \in {KTest, KR} :
          /\ txn[1].st = "open"
          /\ TxnLen(txn[1].x) + 1 >= Cardinality(PrefixKeys)
          /\ ScriptDeletePrefix(PrefixKeys, PrefixCap, 1, prefix)

SpecPrefix == InitNew /\ [][NextPrefix]_vars

\* delete_prefix("test") has been called with exactly the seven keys stored
PrefixCalled ==
    /\ Returned("delete_prefix")
    /\ last.key = KTest
    /\ StoredIn(PrefixKeys, last.pre) = PrefixKeys
    /\ last.pre.len = 7

\* what delete_prefix("test") leaves of the seven keys
PrefixLeft == StoredIn(PrefixKeys, AnswersOver(PrefixKeys, heap, Cur))

\* the call returned true and removed the keys that begin with "test", leaving
\* the others with their values
PrefixRemoved ==
    /\ last.res = TRUE
    /\ PrefixLeft = {<<>>, KR, KRA}
    /\ \A k \in PrefixLeft : TxnGet(heap, Cur, k) = last.pre.get[k]

\* C17: with exactly the seven keys stored, delete_prefix("test") returns true
\* and removes the keys that begin with "test", which are four ("test" itself
\* and the three below it), and len() goes from 7 to 3.
C17_PrefixScenario ==
    PrefixCalled =>
        /\ PrefixRemoved
        /\ Cardinality(PrefixKeys \ PrefixLeft) = 4
        /\ TxnLen(Cur) = 3

C17_Witness == PrefixCalled /\ ops = 8 /\ TxnLen(Cur) = 3 /\ TxnGet(heap, Cur, KTest) = None

\* C17 as stated: five keys are removed and len() goes from 7 to 2.
C17_AsStated ==
    PrefixCalled =>
        /\ PrefixRemoved
        /\ Cardinality(PrefixKeys \ PrefixLeft) = 5
        /\ TxnLen(Cur) = 2

\* ------------------------------------------------------------ edge ordering
\* the labels of an edge list ascend strictly
Ascending(es) == \A i \in 1..(Len(es) - 1) : es[i].label < es[i + 1].label

\* C18: in every node reachable from the root of a published tree or of an open
\* transaction, the edge labels ascend strictly, and so are pairwise distinct.
C18_EdgeOrder ==
    \A r \in Roots : \A n \in {r} \cup Below(heap, r) : Ascending(heap[n].edges)

\* a split has just given a node its second edge
C18_Witness ==
    /\ Returned("insert")
    /\ ~IsSome(last.pre.get[last.key])
    /\ \E n \in {Cur.root} \cup Below(heap, Cur.root) :
          /\ Len(heap[n].edges) >= 2
          /\ \E i \in 1..Len(heap[n].edges) :
                IsLeafNode(heap, heap[n].edges[i].node, <<last.key[Len(last.key)]>>, last.key)

\* ------------------------------------------------------------ the new tree
\* no call has changed anything yet: the one tree is as Tree::new() made it
Fresh == ops = 0 /\ Len(trees) = 1

\* C19: the tree of Tree::new() has len() 0, a root with empty prefix, no leaf
\* and no edges, and get(k) is absent for every key k; a transaction started
\* from it reads the same.
C19_NewTree ==
    Fresh =>
        /\ TreeLen(trees[1]) = 0
        /\ heap[trees[1].root] = [prefix |-> <<>>, leaf |-> None, edges |-> <<>>]
        /\ \A k \in Utf8Keys : TreeGet(heap, trees[1], k) = None
        /\ \A t \in Open : AnswersOver(Utf8Keys, heap, txn[t].x)
                               = [get |-> [k \in Utf8Keys |-> None], len |-> 0]

C19_Witness == Fresh /\ last.op = "tree_new" /\ TreeLen(trees[1]) = 0 /\ Open = {}

\* ------------------------------------------------------------ the cloned transaction
\* C20: right after u = t.clone(), the working root of u is structurally equal
\* to that of t and the pending size of u is that of t; u answers every get and
\* len() as t did when it was cloned.
C20_Clone ==
    Returned("clone") =>
        /\ NodeEq(heap, Cur.root, txn[last.src].x.root)
        /\ Cur.size = txn[last.src].x.size
        /\ TxnLen(Cur) = last.pre.len
        /\ Answers(heap, Cur.root, Cur.size) = last.pre

\* a transaction that has inserted into its tree is cloned
C20_Witness ==
    /\ Returned("clone")
    /\ txn[last.src].x.writable # <<>>
    /\ Cur.size > trees[txn[last.src].base].size
    /\ Cur.writable = <<>>

\* ------------------------------------------------------------ copy-on-write
\* the nodes of the tree under a root, the root included
NodesOf(h, root) == {root} \cup Below(h, root)

\* the step is a call of op on a transaction
StepOf(op) == ops' = ops + 1 /\ last'.op = op

\* the nodes of the snapshot the calling transaction was started from
SnapshotNodes == NodesOf(heap, trees[txn[last'.txn].base].root)

\* the step writes no node of the caller's snapshot
SnapshotKept == \A n \in SnapshotNodes : heap'[n] = heap[n]

\* C21: copy-on-write on insert. An insert writes no node that is reachable
\* from the root of the snapshot its transaction was started from; what it
\* writes are clones and new nodes.
C21_InsertCow == [][StepOf("insert") => SnapshotKept]_vars

\* C22: copy-on-write on delete. A delete, path compression included, writes no
\* node that is reachable from the root of the snapshot its transaction was
\* started from; the child that merge_child absorbs keeps its leaf and edges.
C22_DeleteCow == [][StepOf("delete") => SnapshotKept]_vars

\* ------------------------------------------------------------ contract panics
\* the panics of replace_edge, of replace_edge_at and of merge_child's assertions
ContractPanics ==
    {"replace missing edge", "replace edge at invalid index or label mismatch",
     "cannot merge a leaf node", "node must have a single edge to merge"}

\* C23: no call of insert or delete ends in a contract panic.
C23_NoContractPanic ==
    last.op \in {"insert", "delete"} => last.panic \notin ContractPanics

\* a delete has removed a key below the root and relinked or merged its way up
C23_Witness ==
    /\ Returned("delete")
    /\ IsSome(last.res)
    /\ Len(last.key) >= 2
    /\ Len(Cur.writable) >= 2

\* ------------------------------------------------------------ the clone memo
\* the nodes a memo holds: the clones its transaction has made
MemoNodes(w) == {w[i].node : i \in 1..Len(w)}

\* C24: clone memoization. While the memo is not full, get_writable_node gives
\* back, without cloning again, every node its transaction has cloned, whatever
\* has been written to the clone since.
C24_MemoHit ==
    \A t \in Open :
        Len(txn[t].x.writable) < DEFAULT_MODIFIED_CACHE_SIZE =>
            \A n \in MemoNodes(txn[t].x.writable) :
                get_writable_node(heap, txn[t].x.writable, n)
                    = [h |-> heap, w |-> txn[t].x.writable, node |-> n]

\* two transactions on the tree of "0", "01" and "1" (in ASCII), each key
\* inserted or deleted by either, up to one call per key
MemoKeys == {<<48>>, <<48, 49>>, <<49>>}

InitMemo ==
    LET Built(b) ==
            /\ heap = b.h
            /\ trees = <<b.tree>>
            /\ txn = [t \in TxnIds |-> IdleTxn]
            /\ solo = [t \in TxnIds |-> IdleSolo]
            /\ ref = [t \in TxnIds |-> IdleRef]
            /\ last = [op |-> "new", txn |-> 0, key |-> <<>>, value |-> 0,
                        res |-> None, panic |-> "", pre |-> NoAnswers, again |-> FALSE]
            /\ ops = 0
    IN  Built(BuildTree(NewTree, MemoKeys))

NextMemo ==
    \/ \E t \in TxnIds : StartTransaction(t, 1)
    \/ \E t \in TxnIds, key \in MemoKeys, value \in Vals :
          ScriptInsert(MemoKeys, Cardinality(MemoKeys), t, key, value)
    \/ \E t \in TxnIds, key \in MemoKeys :
          ScriptDelete(MemoKeys, Cardinality(MemoKeys), t, key)

SpecMemo == InitMemo /\ [][NextMemo]_vars

\* C25: memo hits are never false positives. Of the nodes a transaction can
\* reach from its working root, get_writable_node takes as writable only those
\* that are clones this transaction made; every other one it clones.
C25_NoFalseHit ==
    \A t \in Open : \A n \in NodesOf(heap, txn[t].x.root) :
        MemoContains(heap, txn[t].x.writable, n) => n \in MemoNodes(txn[t].x.writable)

\* ------------------------------------------------------------ structural sharing
\* the nodes the search of a key passes, from node n down, as far as the
\* prefixes match
RECURSIVE PathTo(_, _, _)
PathTo(h, n, search) ==
    IF search = <<>> THEN <<n>>
    ELSE LET e == get_edge(h[n].edges, search[1])
         IN  IF IsSome(e) /\ StartsWith(search, h[Unwrap(e).node].prefix)
             THEN <<n>> \o PathTo(h, Unwrap(e).node,
                                  Drop(search, Len(h[Unwrap(e).node].prefix)))
             ELSE <<n>>

\* what is left of the key where that search ends
RECURSIVE RestAt(_, _, _)
RestAt(h, n, search) ==
    IF search = <<>> THEN <<>>
    ELSE LET e == get_edge(h[n].edges, search[1])
         IN  IF IsSome(e) /\ StartsWith(search, h[Unwrap(e).node].prefix)
             THEN RestAt(h, Unwrap(e).node, Drop(search, Len(h[Unwrap(e).node].prefix)))
             ELSE search

\* the child an insert of key re-parents below a split node: the child at the
\* edge where the search ends, when its prefix parts from the key
Reparented(h, root, key) ==
    LET p == PathTo(h, root, key)
        rest == RestAt(h, root, key)
        e == IF rest = <<>> THEN None ELSE get_edge(h[p[Len(p)]].edges, rest[1])
    IN  IF IsSome(e) THEN {Unwrap(e).node} ELSE {}

\* the child a delete of key has a merge absorb: the only child of the key's
\* node, or the only sibling left by a childless key's node, below the root
Absorbed(h, root, key) ==
    LET p == PathTo(h, root, key)
        x == p[Len(p)]
        q == p[Len(p) - 1]
    IN  IF ~IsSome(NodeGet(h, root, key)) \/ Len(p) < 2 THEN {}
        ELSE IF Len(h[x].edges) = 1 THEN {h[x].edges[1].node}
        ELSE IF Len(h[x].edges) = 0 /\ Len(p) > 2 /\ ~is_leaf(h, q) /\ Len(h[q].edges) = 2
        THEN {h[q].edges[i].node : i \in 1..2} \ {x}
        ELSE {}

\* the nodes of the tree under root that a call on key need not leave shared
Touched(op, h, root, key) ==
    {PathTo(h, root, key)[i] : i \in 1..Len(PathTo(h, root, key))}
        \cup (IF op = "insert" THEN Reparented(h, root, key) ELSE Absorbed(h, root, key))

\* every other node of the caller's tree is in its tree after the step, the
\* same object with the same content
SharedKept(op) ==
    \A n \in NodesOf(heap, txn[last'.txn].x.root)
               \ Touched(op, heap, txn[last'.txn].x.root, last'.key) :
        /\ n \in NodesOf(heap', txn'[last'.txn].x.root)
        /\ heap'[n] = heap[n]

\* C26: structural sharing. After an insert or a delete, every node of the
\* previous root's tree that is not on the path to the key, and is neither
\* the child a split re-parents nor the child a merge absorbs, is in the new
\* root's tree as the identical node.
C26_Sharing ==
    [][/\ (StepOf("insert") /\ last'.panic = "") => SharedKept("insert")
       /\ (StepOf("delete") /\ last'.panic = "") => SharedKept("delete")]_vars

\* a call has left a subtree off its path in place: the tree has a node that
\* was there before the transaction and that the transaction did not clone
C26_Witness ==
    /\ last.op \in {"insert", "delete"}
    /\ last.panic = ""
    /\ Cur.writable # <<>>
    /\ \E n \in Below(heap, Cur.root) :
          /\ n \in Below(heap, trees[txn[last.txn].base].root)
          /\ is_leaf(heap, n)
          /\ Unwrap(heap[n].leaf).key # last.key

\* ------------------------------------------------------------ the failed delete
\* C27: a delete of a key that the transaction does not hold returns None and
\* changes nothing: the working root is the same node, the size and the memo
\* are the same, and no node is cloned or written.
C27_FailedDelete ==
    [][(StepOf("delete") /\ ~IsSome(TxnGet(heap, txn[last'.txn].x, last'.key))) =>
          /\ last'.res = None
          /\ last'.panic = ""
          /\ txn'[last'.txn].x = txn[last'.txn].x
          /\ heap' = heap]_vars

\* deletes have failed at a node without a leaf, at a prefix that parts from
\* the key, and at a missing edge
C27_WitnessNoLeaf ==
    /\ Returned("delete")
    /\ last.res = None
    /\ last.key \in PathsWithoutLeaf(heap, Cur.root)

C27_Witness ==
    /\ C27_WitnessNoLeaf
    /\ Len(last.key) >= 1
    /\ Cur.writable # <<>>

RefResult ==
    IF last'.op = "delete_prefix"
    THEN \E k \in Keys : StartsWith(k, last'.key) /\ IsSome(ref[last'.txn].get[k])
    ELSE ref[last'.txn].get[last'.key]

\* C29: map refinement. A transaction run on its own, side by side with a
\* reference map given the same calls, returns from every insert, delete and
\* delete_prefix what the map returns, and afterwards its get of every key is
\* the map's lookup.
C29_Refines ==
    [][(StepOf("insert") \/ StepOf("delete") \/ StepOf("delete_prefix")) =>
          /\ solo'[last'.txn].res = RefResult
          /\ View(solo'[last'.txn].h, solo'[last'.txn].x.root) = ref'[last'.txn].get]_vars

\* a prefix deletion has removed keys and left one, after an earlier call
C29_Witness ==
    /\ Returned("delete_prefix")
    /\ ops >= 2
    /\ solo[last.txn].res = TRUE
    /\ ref[last.txn].len >= 1
    /\ View(solo[last.txn].h, solo[last.txn].x.root) = ref[last.txn].get

\* ------------------------------------------------------------ path invariants
\* below node n, reached by path: every child has a prefix that begins with the
\* label of its edge, and a leaf holds the key its path spells
RECURSIVE PathsSpelled(_, _, _)
PathsSpelled(h, n, path) ==
    \A i \in 1..Len(h[n].edges) :
        LET c == h[n].edges[i].node
        IN  /\ h[c].prefix # <<>>
            /\ h[c].prefix[1] = h[n].edges[i].label
            /\ is_leaf(h, c) => Unwrap(h[c].leaf).key = path \o h[c].prefix
            /\ PathsSpelled(h, c, path \o h[c].prefix)

RECURSIVE Shape(_, _)
Shape(h, n) ==
    [prefix |-> h[n].prefix,
     leaf |-> h[n].leaf,
     edges |-> [i \in 1..Len(h[n].edges) |->
                   [label |-> h[n].edges[i].label, sub |-> Shape(h, h[n].edges[i].node)]]]

\* the shape and len() of a transaction
ShapeOf(h, x) == [shape |-> Shape(h, x.root), len |-> TxnLen(x)]

\* txn.insert(key, value); txn.delete(key): the shape and len() afterwards
RoundTrip(h, x, key, value) ==
    LET Deleted(d) == ShapeOf(d.h, d.x)
        Inserted(r) == Deleted(TxnDelete(r.h, r.x, key))
    IN  Inserted(TxnInsert(h, x, key, value))

\* C31: insert/delete round trip. On every transaction and for every key it
\* does not hold, insert(k, v) followed by delete(k) gives a tree of the same
\* shape and the same len().
C31_RoundTrip ==
    \A t \in Open : \A k \in Keys :
        ~IsSome(TxnGet(heap, txn[t].x, k)) =>
            RoundTrip(heap, txn[t].x, k, MaxVal) = ShapeOf(heap, txn[t].x)

\* ------------------------------------------------------------ The descent, step by step
\* One level of a descent: the node and the search key left to the callee, or
\* None where the call stops at this node.
\* internal_insert: stops on an empty search key, on a missing edge (a new edge is
\* added) and on a child whose prefix is not wholly shared (the child is split).
DescendInsert_SearchKept(h, n, search) ==
    IF search = <<>> THEN None
    ELSE LET e == get_edge(h[n].edges, search[1])
         IN  IF ~IsSome(e) THEN None
             ELSE IF longest_prefix(search, h[Unwrap(e).node].prefix)
                        = Len(h[Unwrap(e).node].prefix)
                  THEN Some([node |-> Unwrap(e).node, search |-> search])
                  ELSE None

DescendInsert(h, n, search) ==
    IF search = <<>> THEN None
    ELSE LET e == get_edge(h[n].edges, search[1])
         IN  IF ~IsSome(e) THEN None
             ELSE IF longest_prefix(search, h[Unwrap(e).node].prefix)
                        = Len(h[Unwrap(e).node].prefix)
                  THEN Some([node |-> Unwrap(e).node,
                             search |-> Drop(search, longest_prefix(search,
                                                        h[Unwrap(e).node].prefix))])
                  ELSE None

\* internal_delete: stops on an empty search key, on a missing edge and on a
\* child whose prefix the search key does not start with.
DescendDelete(h, n, search) ==
    IF search = <<>> THEN None
    ELSE LET e == get_edge(h[n].edges, search[1])
         IN  IF ~IsSome(e) \/ ~StartsWith(search, h[Unwrap(e).node].prefix) THEN None
             ELSE Some([node |-> Unwrap(e).node,
                        search |-> Drop(search, Len(h[Unwrap(e).node].prefix))])

\* one turn of the loop of Node::get and of Node::longest_prefix
DescendLookup(h, n, search) ==
    IF search = <<>> THEN None
    ELSE LET e == get_edge(h[n].edges, search[1])
         IN  IF ~IsSome(e) THEN None
             ELSE IF StartsWith(search, h[Unwrap(e).node].prefix)
                  THEN Some([node |-> Unwrap(e).node,
                             search |-> Drop(search, Len(h[Unwrap(e).node].prefix))])
                  ELSE None

DescentOps == {"insert", "delete", "get", "longest_prefix"}

DescentStep(h, op, n, search) ==
    IF op = "insert" THEN DescendInsert(h, n, search)
    ELSE IF op = "delete" THEN DescendDelete(h, n, search)
    ELSE DescendLookup(h, n, search)

\* every byte string a call may be given, stored or not
DescentKeys == SeqsUpTo(MaxKeyLen)

\* A tree built by inserts, and the tree a Tree::delete made of it; a call of one
\* of the four operations stands at the root of either with its whole key.
InitDescent ==
    \E S \in SUBSET Keys : \E d \in Keys : \E w \in 1..2 :
    \E op \in DescentOps : \E key \in DescentKeys :
        LET Cut(b, r) ==
                /\ heap = r.h
                /\ trees = <<b.tree, r.tree>>
                /\ txn = [t \in TxnIds |-> IdleTxn]
                /\ solo = [t \in TxnIds |-> IdleSolo]
                /\ ref = [t \in TxnIds |-> IdleRef]
                /\ last = [op |-> op, key |-> key, root |-> <<b.tree, r.tree>>[w].root,
                            node |-> <<b.tree, r.tree>>[w].root, search |-> key,
                            depth |-> 0, done |-> FALSE]
                /\ ops = 0
            Built(b) == Cut(b, TreeDelete(b.h, b.tree, d))
        IN  Built(BuildTree(NewTree, S))

\* the call goes down to a child
Descend ==
    /\ ~last.done
    /\ IsSome(DescentStep(heap, last.op, last.node, last.search))
    /\ last' = [last EXCEPT
                  !.node = Unwrap(DescentStep(heap, last.op, last.node, last.search)).node,
                  !.search = Unwrap(DescentStep(heap, last.op, last.node,
                                                last.search)).search,
                  !.depth = last.depth + 1]
    /\ UNCHANGED <<heap, trees, txn, solo, ref, ops>>

\* the call does its work at this node and unwinds
Arrive ==
    /\ ~last.done
    /\ ~IsSome(DescentStep(heap, last.op, last.node, last.search))
    /\ last' = [last EXCEPT !.done = TRUE]
    /\ UNCHANGED <<heap, trees, txn, solo, ref, ops>>

NextDescent == Descend \/ Arrive

\* a call that has begun runs on: nothing in a single-threaded call holds it up
SpecDescent == InitDescent /\ [][NextDescent]_vars /\ WF_vars(NextDescent)

CloneMate == Open \ {last'.txn}

\* the step writes no node under the working root of the other transaction
MateKept == \A u \in CloneMate : \A n \in NodesOf(heap, txn[u].x.root) : heap'[n] = heap[n]

\* the other transaction answers every get after the step as before it
MateAnswers ==
    \A u \in CloneMate : View(heap', txn[u].x.root) = View(heap, txn[u].x.root)

\* C33: a transaction and its clone are independent. An insert or a delete of
\* one of them changes no node reachable from the working root of the other,
\* and the other keeps answering every get as it did.
C33_CloneIndependent ==
    [][(StepOf("insert") \/ StepOf("delete")) => MateKept /\ MateAnswers]_vars

\* ------------------------------------------------------------ The parts, each on its own
\* Every part is called once on an input drawn from a bounded set; last holds
\* the input and, after the call, what came of it.
MaxLabel == 4
EdgeLabels == 1..MaxLabel

\* the child an edge given to replace_edge carries: none of the list's children
NewChild == MaxLabel + 1

\* the edges of a set of labels as the code keeps them, in ascending order of
\* label; the child of label l is node l
RECURSIVE SortedEdges(_)
SortedEdges(L) ==
    IF L = {} THEN <<>>
    ELSE LET m == CHOOSE x \in L : \A y \in L : y <= x
         IN  Append(SortedEdges(L \ {m}), Edge(m, m))

\* A node (cell 1) for merge_child: with or without prefix and leaf, with no,
\* one or two edges; its first child (cell 2) with or without leaf and with no,
\* one or two edges of its own (cells 3 and 4); its second child is cell 5.
MergeHeap(prefix, leaf, edges, child_prefix, child_leaf, child_edges) ==
    << [prefix |-> prefix,
        leaf |-> IF leaf THEN Some(LeafNode(prefix, 1)) ELSE None,
        edges |-> Take(<<Edge(1, 2), Edge(2, 5)>>, edges)],
       [prefix |-> child_prefix,
        leaf |-> IF child_leaf THEN Some(LeafNode(prefix \o child_prefix, MaxVal))
                 ELSE None,
        edges |-> Take(<<Edge(1, 3), Edge(2, 4)>>, child_edges)],
       NewNode(<<1>>, Some(LeafNode(prefix \o child_prefix \o <<1>>, 1))),
       NewNode(<<2>>, Some(LeafNode(prefix \o child_prefix \o <<2>>, 1))),
       NewNode(<<2>>, Some(LeafNode(prefix \o <<2>>, 1))) >>

UnitIdle ==
    /\ trees = <<>>
    /\ txn = [t \in TxnIds |-> IdleTxn]
    /\ solo = [t \in TxnIds |-> IdleSolo]
    /\ ref = [t \in TxnIds |-> IdleRef]
    /\ ops = 0

InitEdges ==
    \E L \in SUBSET EdgeLabels : \E label \in EdgeLabels : \E index \in 0..MaxLabel :
        /\ heap = <<>>
        /\ last = [op |-> "edges", es |-> SortedEdges(L), label |-> label,
                    index |-> index, out |-> None]
        /\ UnitIdle

InitStrings ==
    \E key1 \in SeqsUpTo(MaxKeyLen) : \E key2 \in SeqsUpTo(MaxKeyLen) :
        /\ heap = <<>>
        /\ last = [op |-> "strings", key1 |-> key1, key2 |-> key2, out |-> None]
        /\ UnitIdle

InitMerge ==
    \E prefix \in SeqsUpTo(1) : \E leaf \in BOOLEAN : \E edges \in 0..2 :
    \E child_prefix \in {<<1>>, <<1, 2>>} : \E child_leaf \in BOOLEAN :
    \E child_edges \in 0..2 :
        /\ heap = MergeHeap(prefix, leaf, edges, child_prefix, child_leaf, child_edges)
        /\ last = [op |-> "node", pre |-> heap, panic |-> ""]
        /\ UnitIdle

InitUnits == InitEdges \/ InitStrings \/ InitMerge

UnitDone(op, out) ==
    /\ last' = [last EXCEPT !.op = op, !.out = out]
    /\ UNCHANGED <<heap, trees, txn, solo, ref, ops>>

ReplaceEdge ==
    /\ last.op = "edges"
    /\ UnitDone("replace_edge", replace_edge(last.es, Edge(last.label, NewChild)))

ReplaceEdgeAt ==
    /\ last.op = "edges"
    /\ UnitDone("replace_edge_at",
                replace_edge_at(last.es, last.index, Edge(last.label, NewChild)))

GetEdge ==
    /\ last.op = "edges"
    /\ UnitDone("get_edge", get_edge(last.es, last.label))

GetLowerBoundEdge ==
    /\ last.op = "edges"
    /\ UnitDone("get_lower_bound_edge", get_lower_bound_edge(last.es, last.label))

DeleteEdge ==
    /\ last.op = "edges"
    /\ UnitDone("delete_edge", delete_edge(last.es, last.label))

LongestPrefix ==
    /\ last.op = "strings"
    /\ UnitDone("longest_prefix", Some(longest_prefix(last.key1, last.key2)))

\* txn.merge_child(node) on cell 1
MergeChild ==
    /\ last.op = "node"
    /\ heap' = merge_child(heap, 1).h
    /\ last' = [op |-> "merge_child", pre |-> heap, panic |-> merge_child(heap, 1).panic]
    /\ UNCHANGED <<trees, txn, solo, ref, ops>>

NextUnits ==
    \/ ReplaceEdge
    \/ ReplaceEdgeAt
    \/ GetEdge
    \/ GetLowerBoundEdge
    \/ DeleteEdge
    \/ LongestPrefix
    \/ MergeChild

SpecUnits == InitUnits /\ [][NextUnits]_vars

\* the call made was merge_child, on cell 1 of the heap last.pre
Merged == last.op = "merge_child"

\* the only child of the node before the call
OnlyChild == last.pre[1].edges[1].node

\* C34: merge_child on a node that is no leaf and has exactly one edge leaves
\* the node with its old prefix followed by the child's prefix, with the child's
\* leaf (none if the child had none) and with the child's edges in their order
\* (none if the child had none).
C34_MergeChild ==
    Merged /\ ~is_leaf(last.pre, 1) /\ edge_len(last.pre, 1) = 1 =>
        /\ last.panic = ""
        /\ heap[1].prefix = last.pre[1].prefix \o last.pre[OnlyChild].prefix
        /\ heap[1].leaf = last.pre[OnlyChild].leaf
        /\ heap[1].edges = last.pre[OnlyChild].edges

\* a node with a prefix has taken over the leaf and both edges of its child
C34_Witness ==
    /\ Merged
    /\ last.panic = ""
    /\ last.pre[1].prefix # <<>>
    /\ is_leaf(heap, 1)
    /\ edge_len(heap, 1) = 2

\* C35: merge_child panics with "cannot merge a leaf node" on a node that has a
\* leaf, and with "node must have a single edge to merge" on a leafless node
\* whose number of edges is not one; the node is as it was when the panic comes.
C35_MergePanics ==
    Merged =>
        /\ is_leaf(last.pre, 1) =>
              last.panic = "cannot merge a leaf node" /\ heap = last.pre
        /\ ~is_leaf(last.pre, 1) /\ edge_len(last.pre, 1) # 1 =>
              last.panic = "node must have a single edge to merge" /\ heap = last.pre

\* a leaf node with a single edge was given, and the call panicked
C35_Witness ==
    /\ Merged
    /\ is_leaf(last.pre, 1)
    /\ edge_len(last.pre, 1) = 1
    /\ last.panic = "cannot merge a leaf node"

\* the positions of the edges of the input list that carry the label given
Hits == {i \in 1..Len(last.es) : last.es[i].label = last.label}

\* the output list is the input list with the child at the positions P replaced
ReplacedAt(P) ==
    /\ last.out.panic = ""
    /\ Len(last.out.edges) = Len(last.es)
    /\ \A i \in 1..Len(last.es) :
          last.out.edges[i] = IF i \in P THEN Edge(last.es[i].label, NewChild)
                              ELSE last.es[i]

\* the call panicked with the message and left the list as it was
Refused(message) == last.out.panic = message /\ last.out.edges = last.es

\* C36: replace_edge and replace_edge_at put the new child on the matching edge
\* and leave the other edges and the order alone; replace_edge panics where no
\* edge has the label, replace_edge_at where the index is out of range or the
\* edge at the index has another label, and a panic leaves the list as it was.
C36_ReplaceEdge ==
    /\ last.op = "replace_edge" =>
          IF Hits # {} THEN ReplacedAt(Hits) ELSE Refused("replace missing edge")
    /\ last.op = "replace_edge_at" =>
          IF last.index < Len(last.es) /\ last.es[last.index + 1].label = last.label
          THEN ReplacedAt({last.index + 1})
          ELSE Refused("replace edge at invalid index or label mismatch")

\* an edge in the middle of a list of three or more got the new child
C36_Witness ==
    /\ last.op = "replace_edge"
    /\ last.out.panic = ""
    /\ Len(last.es) >= 3
    /\ \E i \in 2..(Len(last.es) - 1) : last.out.edges[i].node = NewChild

\* C37: on a list of ascending, distinct labels get_edge(label) returns the
\* index, counted from zero, and the child of the edge whose label is the one
\* given, and None where no edge has it.
C37_GetEdge ==
    last.op = "get_edge" =>
        IF Hits = {} THEN last.out = None
        ELSE \E i \in Hits : last.out = Some([idx |-> i - 1, node |-> last.es[i].node])

\* an edge that is not the first one was found
C37_Witness ==
    /\ last.op = "get_edge"
    /\ IsSome(last.out)
    /\ Unwrap(last.out).idx >= 1

\* the positions of the edges whose label is the one given or a greater one
AtOrAbove == {i \in 1..Len(last.es) : last.es[i].label >= last.label}

\* C38: get_lower_bound_edge(label) returns the index and child of the first edge
\* whose label is the one given or greater, and None exactly where every label
\* is smaller.
C38_LowerBound ==
    last.op = "get_lower_bound_edge" =>
        IF AtOrAbove = {} THEN last.out = None
        ELSE \E i \in AtOrAbove :
                /\ \A j \in AtOrAbove : i <= j
                /\ last.out = Some([idx |-> i - 1, node |-> last.es[i].node])

\* the edge returned has a greater label than the one asked for, after smaller ones
C38_Witness ==
    /\ last.op = "get_lower_bound_edge"
    /\ IsSome(last.out)
    /\ Unwrap(last.out).idx >= 1
    /\ last.es[Unwrap(last.out).idx + 1].label > last.label

\* the label given is not on an edge
KeepsLabel(e) == e.label # last.label

\* C39: delete_edge(label) removes the edge with that label and no other and
\* keeps the order of the rest; where no edge has the label the list is left
\* as it is and nothing fails.
C39_DeleteEdge ==
    last.op = "delete_edge" => last.out = SelectSeq(last.es, KeepsLabel)

\* an edge was removed from between two others
C39_Witness ==
    /\ last.op = "delete_edge"
    /\ Len(last.out) + 1 = Len(last.es)
    /\ \E i \in 2..(Len(last.es) - 1) : last.es[i].label = last.label

\* C40: longest_prefix(a, b) is the length of the longest common prefix of the
\* two byte strings: the first n bytes are equal, n is at most either length,
\* and n is the shorter length or the bytes that follow differ.
C40_LongestPrefix ==
    last.op = "longest_prefix" =>
        LET n == Unwrap(last.out)
        IN  /\ n <= Len(last.key1)
            /\ n <= Len(last.key2)
            /\ \A i \in 1..n : last.key1[i] = last.key2[i]
            /\ \/ n = Min(Len(last.key1), Len(last.key2))
               \/ last.key1[n + 1] # last.key2[n + 1]

\* two strings part after a common first byte, before either one ends
C40_Witness ==
    /\ last.op = "longest_prefix"
    /\ Unwrap(last.out) >= 1
    /\ Unwrap(last.out) < Min(Len(last.key1), Len(last.key2))

\* the tree published last
NewestTree == trees[Len(trees)]

\* C11: commit publishes the staged state. The tree commit returns answers
\* len() and every get as the transaction did; Tree::insert, Tree::delete and
\* Tree::delete_prefix return the tree with the one call applied to what the
\* tree they were called on answered, together with the call's result.
C11_Commit ==
    /\ Returned("commit") =>
          Answers(heap, NewestTree.root, NewestTree.size) =
              Answers(heap, Cur.root, Cur.size)
    /\ Returned("tree_insert") =>
          /\ last.res = last.pre.get[last.key]
          /\ View(heap, NewestTree.root) =
                 [last.pre.get EXCEPT ![last.key] = Some(last.value)]
          /\ TreeLen(NewestTree) =
                 last.pre.len + (IF IsSome(last.pre.get[last.key]) THEN 0 ELSE 1)
    /\ Returned("tree_delete") =>
          /\ last.res = last.pre.get[last.key]
          /\ View(heap, NewestTree.root) = [last.pre.get EXCEPT ![last.key] = None]
          /\ TreeLen(NewestTree) =
                 last.pre.len - (IF IsSome(last.pre.get[last.key]) THEN 1 ELSE 0)
    /\ Returned("tree_delete_prefix") =>
          /\ last.res = (\E k \in Keys : IsPrefix(last.key, k) /\ IsSome(last.pre.get[k]))
          /\ View(heap, NewestTree.root) =
                 [k \in Keys |-> IF IsPrefix(last.key, k) THEN None ELSE last.pre.get[k]]
          /\ TreeLen(NewestTree) =
                 last.pre.len - Cardinality({k \in Keys : /\ IsPrefix(last.key, k)
                                                         /\ IsSome(last.pre.get[k])})

\* a tree.delete of a stored key from a tree of two keys, after a commit of a
\* transaction that had changed something
C11_Witness ==
    /\ Returned("tree_delete")
    /\ IsSome(last.res)
    /\ TreeLen(NewestTree) = 1
    /\ \E t \in TxnIds : txn[t].st = "done" /\ txn[t].x.writable # <<>>

====
